---- MODULE Spec2Model ----
(***************************************************************************)
(* update-bin (src/src/main.rs): locate a binary, classify the package     *)
(* manager that installed it, report its version, run the manager's update *)
(* command and report the version again.                                   *)
(*                                                                         *)
(* Text is modelled as a sequence of tokens.  A token is one character     *)
(* ("/", "\\", "@", " ", "\n", ":", "v", ...) or one word that the program *)
(* never looks inside ("homebrew", ".cargo", "2.1.0").  contains, split,   *)
(* trim, lines, strip_prefix and friends are computed on these sequences   *)
(* the way the Rust standard library computes them on characters.          *)
(***************************************************************************)
EXTENDS Integers, Sequences, FiniteSets, TLC

VARIABLES
    env,          \* what the machine answers: platform, which/pnpm/npm/yarn/brew outputs
    args,         \* parsed command line: [bin_name, info]
    pc,           \* position of main / update_binary
    pm,           \* Result<PackageManager> of detect_package_manager
    old_version,  \* update_binary's old_version
    new_version,  \* update_binary's new_version
    out,          \* lines printed on standard output
    errs,         \* lines printed on standard error
    exit_code,    \* process exit code (-1 while running)
    child,        \* the update subprocess and its two pipes
    log,          \* history: the external steps taken, in order
    fn_in,        \* input of a function called on its own
    fn_out        \* its result

vars == <<env, args, pc, pm, old_version, new_version, out, errs, exit_code,
          child, log, fn_in, fn_out>>

----------------------------------------------------------------------------
(* Bounds of the model *)

\* directory pieces in an enumerated binary path
MaxPieces == 2

\* characters in a line of an enumerated `<manager> list -g` output
MaxNodeLineLen == 4

\* characters in a line of an enumerated `cargo install --list` output
MaxCargoLineLen == 5

\* lines the update subprocess writes, on both streams together
MaxChildLines == 2

\* lines a pipe holds before a write to it blocks
PipeCap == 1

----------------------------------------------------------------------------
(* Strings as token sequences *)

WS == {" ", "\n", "\t"}

\* str::contains(pat)
Contains(s, pat) ==
    \E i \in 0..(Len(s) - Len(pat)) : SubSeq(s, i + 1, i + Len(pat)) = pat

\* str::starts_with(pat)
StartsWith(s, pat) ==
    Len(pat) <= Len(s) /\ SubSeq(s, 1, Len(pat)) = pat

\* str::find(pat): 1-based index of the first occurrence, 0 when there is none
Find(s, pat) ==
    IF Contains(s, pat)
    THEN CHOOSE i \in 1..(Len(s) - Len(pat) + 1) :
            /\ SubSeq(s, i, i + Len(pat) - 1) = pat
            /\ \A j \in 1..(i - 1) : SubSeq(s, j, j + Len(pat) - 1) # pat
    ELSE 0

\* a normalization that leaves backslashes in place
ReplaceNothing(s) == s

\* str::replace('\\', "/")
ReplaceBackslash(s) == [i \in 1..Len(s) |-> IF s[i] = "\\" THEN "/" ELSE s[i]]

\* char::to_lowercase on the tokens that have an upper-case form in the model
LowerTok(t) ==
    CASE t = ".CARGO" -> ".cargo"
      [] t = "BIN"    -> "bin"
      [] t = ".BUN"   -> ".bun"
      [] OTHER        -> t

\* str::to_lowercase
ToLowercase(s) == [i \in 1..Len(s) |-> LowerTok(s[i])]

RECURSIVE TrimStart(_)
TrimStart(s) ==
    IF s # <<>> /\ Head(s) \in WS THEN TrimStart(Tail(s)) ELSE s

RECURSIVE TrimEnd(_)
TrimEnd(s) ==
    IF s # <<>> /\ s[Len(s)] \in WS THEN TrimEnd(SubSeq(s, 1, Len(s) - 1)) ELSE s

\* str::trim
Trim(s) == TrimEnd(TrimStart(s))

RECURSIVE LinesFrom(_, _)
LinesFrom(s, cur) ==
    IF s = <<>> THEN (IF cur = <<>> THEN <<>> ELSE <<cur>>)
    ELSE IF Head(s) = "\n" THEN <<cur>> \o LinesFrom(Tail(s), <<>>)
    ELSE LinesFrom(Tail(s), Append(cur, Head(s)))

\* str::lines: split at "\n", a final empty line is not produced
Lines(s) == LinesFrom(s, <<>>)

RECURSIVE SplitWsFrom(_, _)
SplitWsFrom(s, cur) ==
    IF s = <<>> THEN (IF cur = <<>> THEN <<>> ELSE <<cur>>)
    ELSE IF Head(s) \in WS
         THEN (IF cur = <<>> THEN <<>> ELSE <<cur>>) \o SplitWsFrom(Tail(s), <<>>)
    ELSE SplitWsFrom(Tail(s), Append(cur, Head(s)))

\* str::split_whitespace
SplitWhitespace(s) == SplitWsFrom(s, <<>>)

\* str::split(pat).nth(1) for a pattern that occurs in s: the text between
\* the first occurrence of pat and the next one (or the end)
SplitNth1(s, pat) ==
    LET i    == Find(s, pat)
        rest == SubSeq(s, i + Len(pat), Len(s))
        j    == Find(rest, pat)
    IN  IF j = 0 THEN rest ELSE SubSeq(rest, 1, j - 1)

RECURSIVE Join(_)
\* the text of a list of lines, each ended by "\n"
Join(ls) == IF ls = <<>> THEN <<>> ELSE Head(ls) \o <<"\n">> \o Join(Tail(ls))

\* Option / Result values
None == [some |-> FALSE, v |-> <<>>]
Some(x) == [some |-> TRUE, v |-> x]
Ok(x) == [ok |-> TRUE, v |-> x, err |-> <<>>]
Err(msg) == [ok |-> FALSE, v |-> <<>>, err |-> msg]

----------------------------------------------------------------------------
(* The machine the program runs on *)

BinNames == {<<"foo">>}

\* Result<PackageManager, String>
OkPm(name, package_name) ==
    [ok |-> TRUE, name |-> name, package_name |-> package_name, err |-> <<>>]
ErrPm(msg) ==
    [ok |-> FALSE, name |-> "", package_name |-> <<>>, err |-> msg]

\* a failed or unlaunchable command, and a command that exited 0 with this stdout
CmdFail == [ok |-> FALSE, stdout |-> <<>>]
CmdOk(text) == [ok |-> TRUE, stdout |-> text]

\* a globally installed package: its name, its manifest's "bin" declaration
\* and the directory its manifest is read from
NoBin == [kind |-> "none", names |-> <<>>]
BinString(n) == [kind |-> "string", names |-> <<n>>]
BinObject(ns) == [kind |-> "object", names |-> ns]
Pkg(name, bin, dir) == [name |-> name, bin |-> bin, dir |-> dir]

----------------------------------------------------------------------------
(* find_binary_path *)

\* std::path::MAIN_SEPARATOR and is_separator
IsSep(t, windows) == t = "/" \/ (windows /\ t = "\\")
MainSep(windows) == IF windows THEN "\\" ELSE "/"

\* Path::parent: the path without its final component
Parent(p, windows) ==
    LET seps == {i \in 1..Len(p) : IsSep(p[i], windows)}
    IN  IF p = <<>> THEN None
        ELSE IF seps = {} THEN Some(<<>>)
        ELSE LET k == CHOOSE i \in seps : \A j \in seps : j <= i
             IN  IF k = 1 THEN (IF Len(p) = 1 THEN None ELSE Some(<<p[1]>>))
                 ELSE Some(SubSeq(p, 1, k - 1))

\* PathBuf::join of one component
PathJoin(p, name, windows) ==
    IF p # <<>> /\ IsSep(p[Len(p)], windows) THEN p \o <<name>>
    ELSE p \o <<MainSep(windows), name>>

find_binary_path(bin_name, which) ==
    IF which.ok
    THEN LET bin_path == Trim(which.stdout)
             ls       == Lines(bin_path)
         IN  Ok(IF ls = <<>> THEN bin_path ELSE ls[1])
    ELSE Err(<<"Binary '">> \o bin_name \o <<"' not found">>)

----------------------------------------------------------------------------
(* Package-name resolvers *)

\* the test on a manifest's "bin" value: a string equal to the name, or an
\* object with the name among its keys
bin_is_string(bin, bin_name) ==
    bin.kind = "string" /\ bin.names = <<bin_name>>

bin_matches(bin, bin_name) ==
    \/ bin.kind = "string" /\ bin.names = <<bin_name>>
    \/ bin.kind = "object" /\ \E i \in 1..Len(bin.names) : bin.names[i] = bin_name

RECURSIVE scan_packages(_, _, _)
\* the loop over the listed packages: the first whose readable manifest matches
scan_packages(pkgs, readable, bin_name) ==
    IF pkgs = <<>> THEN bin_name
    ELSE IF Head(pkgs).dir \in readable /\ bin_matches(Head(pkgs).bin, bin_name)
         THEN Head(pkgs).name
    ELSE scan_packages(Tail(pkgs), readable, bin_name)

AllDirs(listing) == {listing.v[i].dir : i \in 1..Len(listing.v)}

map_bin_name_to_npm_package_name(bin_name, global_node_modules_dir, listing) ==
    IF listing.some
    THEN scan_packages(listing.v, {global_node_modules_dir}, bin_name)
    ELSE bin_name

map_bin_name_to_pnpm_package_name(bin_name, listing) ==
    IF listing.some
    THEN scan_packages(listing.v, AllDirs(listing), bin_name)
    ELSE bin_name

map_bin_name_to_yarn_package_name(bin_name, listing) ==
    IF listing.some
    THEN scan_packages(listing.v, AllDirs(listing), bin_name)
    ELSE bin_name

map_bin_name_to_bun_package_name(bin_name, listing) ==
    IF listing.some
    THEN scan_packages(listing.v, AllDirs(listing), bin_name)
    ELSE bin_name

RECURSIVE first_installed(_, _)
first_installed(cands, installed) ==
    IF cands = <<>> THEN None
    ELSE LET c == Trim(Head(cands))
         IN  IF c # <<>> /\ c \in installed THEN Some(c)
             ELSE first_installed(Tail(cands), installed)

map_bin_name_to_homebrew_package_name(bin_name, brew_list, brew_which) ==
    IF ~brew_list.some \/ ~brew_which.some THEN bin_name
    ELSE LET ls         == Lines(Trim(brew_list.v))
             installed  == {Trim(ls[i]) : i \in 1..Len(ls)} \ {<<>>}
             candidates == Trim(brew_which.v)
             hit        == first_installed(Lines(candidates), installed)
         IN  IF candidates # <<>> /\ ~Contains(candidates, <<"Error">>) /\ hit.some
             THEN hit.v
             ELSE bin_name

----------------------------------------------------------------------------
(* detect_package_manager *)

HomebrewMarkers == {<<"/", "opt", "/", "homebrew", "/">>, <<"/", "usr", "/", "local", "/">>}
BunMarker == <<"/", ".bun", "/">>
BunMarkerWindows == <<"\\", "appdata", "\\", "roaming", "\\", "bun", "\\">>
CargoMarker == <<"/", ".cargo", "/", "bin", "/">>
CargoMarkerWindows == <<"\\", ".cargo", "\\", "bin", "\\">>

\* the six tests, each as the code writes it, on the normalized path
homebrew_test(normalized_path, e) ==
    ~e.windows /\ \E m \in HomebrewMarkers : Contains(normalized_path, m)

bun_test(normalized_path, e) ==
    \/ Contains(normalized_path, BunMarker)
    \/ e.windows /\ Contains(ToLowercase(normalized_path), BunMarkerWindows)

cargo_test(normalized_path, e) ==
    \/ Contains(normalized_path, CargoMarker)
    \/ e.windows /\ Contains(ToLowercase(normalized_path), CargoMarkerWindows)

\* Command::output().ok().map(stdout.trim()) of `pnpm bin -g` / `yarn global bin`
reported_dir(cmd_out) == IF cmd_out.some THEN Some(Trim(cmd_out.v)) ELSE None

pnpm_test(normalized_path, e) ==
    LET global_bin_dir == reported_dir(e.pnpm_bin)
    IN  global_bin_dir.some
        /\ Contains(normalized_path, ReplaceBackslash(global_bin_dir.v))

\* the directory holding the npm executable
npm_bin_dir(e) ==
    LET npm_bin_path == find_binary_path(<<"npm">>, e.which_npm)
    IN  IF npm_bin_path.ok THEN Parent(npm_bin_path.v, e.windows) ELSE None

npm_test(normalized_path, e) ==
    LET d == npm_bin_dir(e)
    IN  d.some /\ Contains(normalized_path, ReplaceBackslash(d.v))

global_node_modules_dir(e) ==
    LET p == Parent(npm_bin_dir(e).v, e.windows)
    IN  IF ~p.some THEN <<>>
        ELSE IF e.windows THEN PathJoin(p.v, "node_modules", TRUE)
        ELSE PathJoin(PathJoin(p.v, "lib", FALSE), "node_modules", FALSE)

yarn_test(normalized_path, e) ==
    LET yarn_bin_dir == reported_dir(e.yarn_bin)
    IN  yarn_bin_dir.some
        /\ Contains(normalized_path, ReplaceBackslash(yarn_bin_dir.v))

detect_bun_after_cargo(bin_name, e) ==
    LET bin_path == find_binary_path(bin_name, e.which_bin)
        normalized_path == ReplaceBackslash(bin_path.v)
    IN  IF ~bin_path.ok THEN ErrPm(bin_path.err)
        ELSE IF homebrew_test(normalized_path, e)
             THEN OkPm("homebrew",
                       map_bin_name_to_homebrew_package_name(bin_name, e.brew_list, e.brew_which))
        ELSE IF cargo_test(normalized_path, e)
             THEN OkPm("cargo", bin_name)
        ELSE IF bun_test(normalized_path, e)
             THEN OkPm("bun", map_bin_name_to_bun_package_name(bin_name, e.listing))
        ELSE IF pnpm_test(normalized_path, e)
             THEN OkPm("pnpm", map_bin_name_to_pnpm_package_name(bin_name, e.listing))
        ELSE IF npm_test(normalized_path, e)
             THEN OkPm("npm", map_bin_name_to_npm_package_name(
                                  bin_name, global_node_modules_dir(e), e.listing))
        ELSE IF yarn_test(normalized_path, e)
             THEN OkPm("yarn", map_bin_name_to_yarn_package_name(bin_name, e.listing))
        ELSE ErrPm(<<"Could not detect package manager for '">> \o bin_name \o <<"'">>)

detect_package_manager(bin_name, e) ==
    LET bin_path == find_binary_path(bin_name, e.which_bin)
        normalized_path == ReplaceBackslash(bin_path.v)
    IN  IF ~bin_path.ok THEN ErrPm(bin_path.err)
        ELSE IF homebrew_test(normalized_path, e)
             THEN OkPm("homebrew",
                       map_bin_name_to_homebrew_package_name(bin_name, e.brew_list, e.brew_which))
        ELSE IF bun_test(normalized_path, e)
             THEN OkPm("bun", map_bin_name_to_bun_package_name(bin_name, e.listing))
        ELSE IF cargo_test(normalized_path, e)
             THEN OkPm("cargo", bin_name)
        ELSE IF pnpm_test(normalized_path, e)
             THEN OkPm("pnpm", map_bin_name_to_pnpm_package_name(bin_name, e.listing))
        ELSE IF npm_test(normalized_path, e)
             THEN OkPm("npm", map_bin_name_to_npm_package_name(
                                  bin_name, global_node_modules_dir(e), e.listing))
        ELSE IF yarn_test(normalized_path, e)
             THEN OkPm("yarn", map_bin_name_to_yarn_package_name(bin_name, e.listing))
        ELSE ErrPm(<<"Could not detect package manager for '">> \o bin_name \o <<"'">>)

----------------------------------------------------------------------------
(* Environments *)

\* directory pieces binary paths are built from
Pieces ==
    { <<"/", "opt", "/", "homebrew">>, <<"/", "usr", "/", "local">>,
      <<"/", ".bun">>, <<"/", ".cargo", "/", "bin">>, <<"/", ".CARGO", "/", "BIN">>,
      <<"/", "home">>, <<"/", "pnpm">>, <<"/", "npm", "/", "bin">>, <<"/", "yarn">> }

RECURSIVE DirsOf(_)
DirsOf(n) ==
    IF n = 0 THEN {<<>>}
    ELSE DirsOf(n - 1) \cup {d \o p : d \in DirsOf(n - 1), p \in Pieces}

Backslashed(s) == [i \in 1..Len(s) |-> IF s[i] = "/" THEN "\\" ELSE s[i]]

\* the paths `which`/`where` may print for a binary, in both separator styles
PathsFor(bin_name, n) ==
    LET fwd == {d \o <<"/">> \o bin_name : d \in DirsOf(n)}
    IN  fwd \cup {Backslashed(p) : p \in fwd}

\* what `which <bin>` answers: failure, nothing, one path, or two paths
WhichOutputs(bin_name, n) ==
    {CmdFail, CmdOk(<<>>)}
    \cup {CmdOk(p \o <<"\n">>) : p \in PathsFor(bin_name, n)}
    \cup {CmdOk(p \o <<"\n", "/", "other", "/">> \o bin_name \o <<"\n">>) :
            p \in PathsFor(bin_name, 1)}

NodeModulesDir == <<"/", "npm", "/", "lib", "/", "node_modules">>

DetectEnvs(bin_name) ==
    [ windows   : BOOLEAN,
      which_bin : WhichOutputs(bin_name, MaxPieces),
      which_npm : {CmdFail, CmdOk(<<"/", "npm", "/", "bin", "/", "npm", "\n">>)},
      pnpm_bin  : {None, Some(<<>>), Some(<<"/", "pnpm", "\n">>)},
      yarn_bin  : {None, Some(<<>>), Some(<<"/", "yarn", "\n">>)},
      listing   : {Some(<<Pkg(<<"foo-cli">>, BinObject(<<bin_name>>), NodeModulesDir)>>)},
      brew_list : {Some(<<"foo-formula", "\n", "jq", "\n">>)},
      brew_which: {None, Some(<<"foo-formula", "\n">>)} ]

\* no update subprocess yet
NoChild ==
    [ state |-> "none", status |-> 0, stdout |-> <<>>, stderr |-> <<>>,
      stdout_open |-> FALSE, stderr_open |-> FALSE, written |-> 0,
      writing |-> "" ]

\* values of the variables a specification does not use
Idle ==
    /\ args = [bin_name |-> <<"foo">>, info |-> FALSE]
    /\ pm = ErrPm(<<>>)
    /\ old_version = <<>>
    /\ new_version = <<>>
    /\ out = <<>>
    /\ errs = <<>>
    /\ exit_code = -1
    /\ child = NoChild
    /\ log = <<>>

----------------------------------------------------------------------------
(* detect_package_manager called on its own, on every environment *)

InitDetect ==
    /\ Idle
    /\ pc = "call"
    /\ fn_in \in BinNames
    /\ env \in DetectEnvs(fn_in)
    /\ fn_out = ErrPm(<<>>)

CallDetect ==
    /\ pc = "call"
    /\ fn_out' = detect_package_manager(fn_in, env)
    /\ pc' = "returned"
    /\ UNCHANGED <<env, args, pm, old_version, new_version, out, errs, exit_code,
                   child, log, fn_in>>

SpecDetect == InitDetect /\ [][CallDetect]_vars

\* the order of the tests, and each test as a predicate of the environment
TestOrder == <<"homebrew", "bun", "cargo", "pnpm", "npm", "yarn">>

NormalizedBinPath(e, bin_name) ==
    ReplaceBackslash(find_binary_path(bin_name, e.which_bin).v)

TestMatches(m, e, bin_name) ==
    LET p == NormalizedBinPath(e, bin_name)
    IN  CASE m = "homebrew" -> homebrew_test(p, e)
          [] m = "bun"      -> bun_test(p, e)
          [] m = "cargo"    -> cargo_test(p, e)
          [] m = "pnpm"     -> pnpm_test(p, e)
          [] m = "npm"      -> npm_test(p, e)
          [] m = "yarn"     -> yarn_test(p, e)

\* C1: when the binary is found, the manager returned is the earliest one in
\* the order homebrew, bun, cargo, pnpm, npm, yarn whose test matches the
\* path; when no test matches the result is an error.
C1_FirstMatchWins ==
    (pc = "returned" /\ find_binary_path(fn_in, env.which_bin).ok) =>
        LET hits == {i \in 1..Len(TestOrder) : TestMatches(TestOrder[i], env, fn_in)}
        IN  IF hits = {} THEN ~fn_out.ok
            ELSE /\ fn_out.ok
                 /\ \E i \in hits : /\ \A j \in hits : i <= j
                                    /\ fn_out.name = TestOrder[i]

\* a path on which a later test (cargo) matches together with an earlier one (bun)
C1_Witness ==
    /\ pc = "returned"
    /\ fn_out.ok /\ fn_out.name = "bun"
    /\ TestMatches("cargo", env, fn_in)
    /\ TestMatches("pnpm", env, fn_in)

\* the resolved path, as find_binary_path returned it
ResolvedPath == find_binary_path(fn_in, env.which_bin)

\* the marker occurs in the raw path, written with forward or backward slashes
HasMarker(raw, m) == Contains(raw, m) \/ Contains(raw, Backslashed(m))

HasCargoMarker == ResolvedPath.ok /\ HasMarker(ResolvedPath.v, CargoMarker)

\* C2 as stated: a resolved path with a Cargo bin marker, in either separator
\* convention, is classified as cargo with the binary name as package name.
C2_CargoMarkerAlwaysCargo ==
    (pc = "returned" /\ HasCargoMarker) =>
        fn_out = OkPm("cargo", fn_in)

\* C2 amended: a resolved path with a Cargo bin marker, in either separator
\* convention, that matches neither the Homebrew test (a /opt/homebrew/ or
\* /usr/local/ marker, on builds other than Windows) nor the Bun test (a
\* /.bun/ marker) is classified as cargo with the binary name as package name.
C2_CargoMarkerUnlessEarlierTest ==
    (/\ pc = "returned"
     /\ HasCargoMarker
     /\ env.windows \/ \A m \in HomebrewMarkers : ~HasMarker(ResolvedPath.v, m)
     /\ ~HasMarker(ResolvedPath.v, BunMarker)) =>
        fn_out = OkPm("cargo", fn_in)

\* a Windows-style path with the Cargo marker, on a build other than Windows
\* and with a pnpm directory that would also match, classified as cargo
C2_Witness ==
    /\ pc = "returned"
    /\ ~env.windows
    /\ Contains(ResolvedPath.v, Backslashed(CargoMarker))
    /\ Contains(ResolvedPath.v, <<"\\", "pnpm">>)
    /\ env.pnpm_bin = Some(<<>>)
    /\ fn_out = OkPm("cargo", fn_in)

----------------------------------------------------------------------------
(* get_update_command *)

\* Result<(String, Vec<String>), String>
OkCmd(command, arguments) ==
    [ok |-> TRUE, command |-> command, args |-> arguments, err |-> <<>>]
ErrCmd(msg) ==
    [ok |-> FALSE, command |-> <<>>, args |-> <<>>, err |-> msg]

get_update_command_yarn_as_npm(package_manager, package_name) ==
    CASE package_manager = "homebrew" -> OkCmd(<<"brew">>, << <<"upgrade">>, package_name >>)
      [] package_manager = "bun"   -> OkCmd(<<"bun">>, << <<"update">>, <<"-g">>, package_name >>)
      [] package_manager = "npm"   -> OkCmd(<<"npm">>, << <<"update">>, <<"-g">>, package_name >>)
      [] package_manager = "pnpm"  -> OkCmd(<<"pnpm">>, << <<"update">>, <<"-g">>, package_name >>)
      [] package_manager = "cargo" -> OkCmd(<<"cargo">>, << <<"install">>, package_name >>)
      [] package_manager = "yarn"  -> OkCmd(<<"yarn">>, << <<"update">>, <<"-g">>, package_name >>)
      [] OTHER -> ErrCmd(<<"Unsupported package manager: ", package_manager>>)

get_update_command(package_manager, package_name) ==
    CASE package_manager = "homebrew" -> OkCmd(<<"brew">>, << <<"upgrade">>, package_name >>)
      [] package_manager = "bun"   -> OkCmd(<<"bun">>, << <<"update">>, <<"-g">>, package_name >>)
      [] package_manager = "npm"   -> OkCmd(<<"npm">>, << <<"update">>, <<"-g">>, package_name >>)
      [] package_manager = "pnpm"  -> OkCmd(<<"pnpm">>, << <<"update">>, <<"-g">>, package_name >>)
      [] package_manager = "cargo" -> OkCmd(<<"cargo">>, << <<"install">>, package_name >>)
      [] package_manager = "yarn"  -> OkCmd(<<"yarn">>, << <<"global">>, <<"upgrade">>, package_name >>)
      [] OTHER -> ErrCmd(<<"Unsupported package manager: ", package_manager>>)

(* get_update_command called on its own, twice on the same input *)

KnownManagers == {"homebrew", "bun", "npm", "pnpm", "cargo", "yarn"}
OtherIdentifiers == {"unsupported", "", "Homebrew", "brew", "NPM", "pip"}
PackageNames ==
    { <<"foo">>, <<"test-package">>, <<"foo-cli">>, <<>>,
      <<"@", "scope", "/", "pkg">>, <<"a", " ", "b">> }

\* an empty environment: no command answers
NoEnv ==
    [ windows |-> FALSE, which_bin |-> CmdFail, which_npm |-> CmdFail,
      pnpm_bin |-> None, yarn_bin |-> None, listing |-> None,
      brew_list |-> None, brew_which |-> None ]

InitCmd ==
    /\ Idle
    /\ env = NoEnv
    /\ pc = "call"
    /\ fn_in \in [package_manager : KnownManagers \cup OtherIdentifiers,
                  package_name : PackageNames]
    /\ fn_out = <<>>

CallGetUpdateCommand ==
    /\ pc \in {"call", "again"}
    /\ fn_out' = Append(fn_out, get_update_command(fn_in.package_manager, fn_in.package_name))
    /\ pc' = IF pc = "call" THEN "again" ELSE "returned"
    /\ UNCHANGED <<env, args, pm, old_version, new_version, out, errs, exit_code,
                   child, log, fn_in>>

SpecCmd == InitCmd /\ [][CallGetUpdateCommand]_vars

\* the table of section 4.4: executable and the arguments before the package
UpdateTable(m) ==
    CASE m = "homebrew" -> [exe |-> <<"brew">>,  pre |-> << <<"upgrade">> >>]
      [] m = "bun"      -> [exe |-> <<"bun">>,   pre |-> << <<"update">>, <<"-g">> >>]
      [] m = "npm"      -> [exe |-> <<"npm">>,   pre |-> << <<"update">>, <<"-g">> >>]
      [] m = "pnpm"     -> [exe |-> <<"pnpm">>,  pre |-> << <<"update">>, <<"-g">> >>]
      [] m = "cargo"    -> [exe |-> <<"cargo">>, pre |-> << <<"install">> >>]
      [] m = "yarn"     -> [exe |-> <<"yarn">>,  pre |-> << <<"global">>, <<"upgrade">> >>]

\* C3: every call of get_update_command returns the table's executable and
\* arguments for the six known identifiers and an "Unsupported package
\* manager" error for any other identifier, a second call on the same input
\* returns the same, and no call starts a process, prints or exits.
C3_UpdateCommandTable ==
    /\ \A i \in 1..Len(fn_out) :
          IF fn_in.package_manager \in KnownManagers
          THEN /\ fn_out[i].ok
               /\ fn_out[i].command = UpdateTable(fn_in.package_manager).exe
               /\ fn_out[i].args =
                     Append(UpdateTable(fn_in.package_manager).pre, fn_in.package_name)
          ELSE /\ ~fn_out[i].ok
               /\ fn_out[i].err[1] = "Unsupported package manager: "
    /\ \A i, j \in 1..Len(fn_out) : fn_out[i] = fn_out[j]
    /\ child = NoChild /\ out = <<>> /\ errs = <<>> /\ exit_code = -1 /\ log = <<>>

\* yarn called twice
C3_Witness ==
    /\ pc = "returned" /\ Len(fn_out) = 2
    /\ fn_in.package_manager = "yarn"
    /\ fn_in.package_name = <<"@", "scope", "/", "pkg">>
    /\ fn_out[2].ok

----------------------------------------------------------------------------
(* Version reporter *)

\* what Command::output() gave: the command could not be launched, or it ran
\* and exited with or without success, having printed stdout
NotLaunched == [launched |-> FALSE, success |-> FALSE, stdout |-> <<>>]
Exited(success, text) == [launched |-> TRUE, success |-> success, stdout |-> text]

Unknown == <<"unknown">>

RECURSIVE get_binary_version(_, _)
\* flags: the answers of `<bin> --version`, `-v`, `-V`, `version`, in that order
get_binary_version(bin_name, flags) ==
    IF flags = <<>> THEN Err(<<"Could not determine version">>)
    ELSE LET output == Head(flags)
         IN  IF output.launched /\ output.success
             THEN LET ls == Lines(output.stdout)
                  IN  Ok(Trim(IF ls = <<>> THEN Unknown ELSE ls[1]))
             ELSE get_binary_version(bin_name, Tail(flags))

get_homebrew_version(bin_name, output) ==
    IF ~output.launched THEN Err(<<"Failed to get brew version: ">>)
    ELSE IF ~output.success THEN Err(<<"Package not found in homebrew">>)
    ELSE LET toks == SplitWhitespace(Trim(output.stdout))
         IN  Ok(IF Len(toks) >= 2 THEN toks[2] ELSE Unknown)

RECURSIVE node_version_in(_, _)
\* the loop over the listing's lines: the first line containing `<package>@`
node_version_in(ls, marker) ==
    IF ls = <<>> THEN None
    ELSE IF Contains(Head(ls), marker)
         THEN Some(Trim(SplitNth1(Head(ls), marker)))
    ELSE node_version_in(Tail(ls), marker)

get_node_package_version(bin_name, package_manager, output, flags) ==
    IF ~output.launched
    THEN Err(<<"Failed to get ", package_manager.name, " version: ">>)
    ELSE IF ~output.success THEN get_binary_version(bin_name, flags)
    ELSE LET hit == node_version_in(Lines(output.stdout),
                                    package_manager.package_name \o <<"@">>)
         IN  IF hit.some THEN Ok(hit.v) ELSE get_binary_version(bin_name, flags)

\* Option::and_then(strip_prefix("v")) on the second token, then
\* unwrap_or("unknown") and trim_end_matches(':')
RECURSIVE TrimEndColons(_)
TrimEndColons(s) ==
    IF s # <<>> /\ s[Len(s)] = ":" THEN TrimEndColons(SubSeq(s, 1, Len(s) - 1)) ELSE s

cargo_version_of(line) ==
    LET toks == SplitWhitespace(line)
        v    == IF Len(toks) >= 2 /\ StartsWith(toks[2], <<"v">>)
                THEN Tail(toks[2])
                ELSE Unknown
    IN  TrimEndColons(v)

RECURSIVE cargo_version_in(_, _)
\* the loop over the listing's lines: the first line starting with `<bin_name> `
cargo_version_in(ls, bin_name) ==
    IF ls = <<>> THEN None
    ELSE IF StartsWith(Head(ls), bin_name \o <<" ">>)
         THEN Some(cargo_version_of(Head(ls)))
    ELSE cargo_version_in(Tail(ls), bin_name)

get_cargo_version(bin_name, output, flags) ==
    IF ~output.launched THEN Err(<<"Failed to get cargo version: ">>)
    ELSE IF ~output.success THEN get_binary_version(bin_name, flags)
    ELSE LET hit == cargo_version_in(Lines(output.stdout), bin_name)
         IN  IF hit.some THEN Ok(hit.v) ELSE get_binary_version(bin_name, flags)

\* output: the answer of the manager's listing command;  flags: the answers
\* of the binary's own version flags
get_version(bin_name, package_manager, output, flags) ==
    CASE package_manager.name = "homebrew" -> get_homebrew_version(bin_name, output)
      [] package_manager.name \in {"bun", "npm", "pnpm"} ->
            get_node_package_version(bin_name, package_manager, output, flags)
      [] package_manager.name = "cargo" -> get_cargo_version(bin_name, output, flags)
      [] OTHER -> get_binary_version(bin_name, flags)

\* a lookup failure that leaves the version empty
unwrap_or_empty(r) == r.v

\* Result::unwrap_or_else(|_| "unknown")
unwrap_or_unknown(r) == IF r.ok THEN r.v ELSE Unknown

----------------------------------------------------------------------------
(* Enumerated command outputs *)

RECURSIVE StringsUpTo(_, _)
\* all strings of at most n characters
StringsUpTo(chars, n) ==
    IF n = 0 THEN {<<>>}
    ELSE LET shorter == StringsUpTo(chars, n - 1)
         IN  shorter \cup {Append(t, c) : t \in shorter, c \in chars}

\* the answers of the binary's four version flags: none works
NoFlagWorks == <<NotLaunched, Exited(FALSE, <<>>), NotLaunched, Exited(FALSE, <<>>)>>

(* get_node_package_version called on its own, on every listing of at most
   two lines *)

NodeChars == {"f", "x", "@", "1"}
NodeLines == StringsUpTo(NodeChars, MaxNodeLineLen)
NodeListings == {<<>>} \cup {<<l>> : l \in NodeLines} \cup (NodeLines \X NodeLines)

InitNode ==
    /\ Idle
    /\ env = NoEnv
    /\ pc = "call"
    /\ fn_in \in [ package_manager : {OkPm("npm", <<"f">>)},
                   lines : NodeListings,
                   flags : {NoFlagWorks} ]
    /\ fn_out = Err(<<>>)

CallNodeVersion ==
    /\ pc = "call"
    /\ fn_out' = get_node_package_version(<<"f">>, fn_in.package_manager,
                                          Exited(TRUE, Join(fn_in.lines)), fn_in.flags)
    /\ pc' = "returned"
    /\ UNCHANGED <<env, args, pm, old_version, new_version, out, errs, exit_code,
                   child, log, fn_in>>

SpecNode == InitNode /\ [][CallNodeVersion]_vars

\* a version string: not empty, no whitespace, no "@"
IsVersion(v) == v # <<>> /\ \A i \in 1..Len(v) : v[i] \notin WS \cup {"@"}

\* line is `P@V` for a version V
IsPackageLine(line, package_name) ==
    /\ StartsWith(line, package_name \o <<"@">>)
    /\ IsVersion(SubSeq(line, Len(package_name) + 2, Len(line)))

\* C9: when exactly one line of the listing starts with `P@` and that line is
\* `P@V` for a version V, get_node_package_version returns exactly V,
\* whatever the other lines are and wherever the line stands.
C9_NodeVersionOfPackageLine ==
    pc = "returned" =>
        LET P    == fn_in.package_manager.package_name
            hits == {i \in 1..Len(fn_in.lines) : StartsWith(fn_in.lines[i], P \o <<"@">>)}
        IN  \A i \in hits :
                (hits = {i} /\ IsPackageLine(fn_in.lines[i], P)) =>
                    fn_out = Ok(SubSeq(fn_in.lines[i], Len(P) + 2, Len(fn_in.lines[i])))

(* get_cargo_version called on its own, on every listing of one line and on
   every listing of two shorter lines *)

CargoChars == {"f", " ", "v", "1", ":"}
CargoListings ==
    {<<>>}
    \cup {<<l>> : l \in StringsUpTo(CargoChars, MaxCargoLineLen)}
    \cup (StringsUpTo(CargoChars, MaxCargoLineLen - 2)
            \X StringsUpTo(CargoChars, MaxCargoLineLen - 2))

InitCargo ==
    /\ Idle
    /\ env = NoEnv
    /\ pc = "call"
    /\ fn_in \in [ bin_name : {<<"f">>}, lines : CargoListings, flags : {NoFlagWorks} ]
    /\ fn_out = Err(<<>>)

CallCargoVersion ==
    /\ pc = "call"
    /\ fn_out' = get_cargo_version(fn_in.bin_name, Exited(TRUE, Join(fn_in.lines)),
                                   fn_in.flags)
    /\ pc' = "returned"
    /\ UNCHANGED <<env, args, pm, old_version, new_version, out, errs, exit_code,
                   child, log, fn_in>>

SpecCargo == InitCargo /\ [][CallCargoVersion]_vars

\* the token with one leading "v", if it has one, and its trailing colons removed
StripVAndColons(tok) ==
    TrimEndColons(IF StartsWith(tok, <<"v">>) THEN Tail(tok) ELSE tok)

\* C10: when the listing has a line starting with `<bin_name> ` and the first
\* such line has a second whitespace-separated token, get_cargo_version
\* returns that token with a leading "v" and the trailing colon stripped,
\* whether or not the token has a leading "v".
C10_CargoVersionOfSecondToken ==
    pc = "returned" =>
        LET hits == {i \in 1..Len(fn_in.lines) :
                        StartsWith(fn_in.lines[i], fn_in.bin_name \o <<" ">>)}
        IN  \A i \in hits :
                LET toks == SplitWhitespace(fn_in.lines[i])
                IN  ((\A j \in hits : i <= j) /\ Len(toks) >= 2) =>
                        fn_out = Ok(StripVAndColons(toks[2]))

----------------------------------------------------------------------------
(* A run of the program: main, display_info, update_binary and the update
   subprocess *)

\* environments of a run: the binary is not found, or it is found under one
\* of the directories; packages are registered under another name than the
\* binary's
RunEnvs(bin_name) ==
    [ windows   : BOOLEAN,
      which_bin : {CmdFail} \cup {CmdOk(p \o <<"/">> \o bin_name \o <<"\n">>) : p \in Pieces},
      which_npm : {CmdOk(<<"/", "npm", "/", "bin", "/", "npm", "\n">>)},
      pnpm_bin  : {Some(<<"/", "pnpm", "\n">>)},
      yarn_bin  : {Some(<<"/", "yarn", "\n">>)},
      listing   : {Some(<<Pkg(<<"other">>, NoBin, NodeModulesDir),
                          Pkg(<<"foo-cli">>, BinObject(<<bin_name>>), NodeModulesDir)>>)},
      brew_list : {Some(<<"foo-formula", "\n", "jq", "\n">>)},
      brew_which: {Some(<<"foo-formula", "\n">>)} ]

Versions == {<<"2.1.0">>, <<"2.2.0">>}

\* what the manager's listing command prints for the package at a version
ListText(package_manager, ver) ==
    LET pkg == package_manager.package_name
    IN  CASE package_manager.name = "homebrew" -> pkg \o <<" ">> \o ver \o <<"\n">>
          [] package_manager.name \in {"bun", "npm", "pnpm"} ->
                <<"/", "lib", "\n", "+--", " ">> \o pkg \o <<"@">> \o ver \o <<"\n">>
          [] package_manager.name = "cargo" ->
                pkg \o <<" ", "v">> \o ver \o <<":", "\n", " ", " ">> \o pkg \o <<"\n">>
          [] OTHER -> <<>>

\* the answers of the listing command get_version runs
ListAnswers(package_manager) ==
    {NotLaunched, Exited(FALSE, <<>>), Exited(TRUE, <<>>)}
    \cup {Exited(TRUE, ListText(package_manager, v)) : v \in Versions}

\* the answers of the binary's own four version flags
FlagAnswers ==
    [1..4 -> { NotLaunched, Exited(FALSE, <<"2.1.0", "\n">>),
               Exited(TRUE, <<" ", "2.2.0", " ", "\n", "more", "\n">>) }]

\* what a version query asks about: the binary (brew list --versions
\* <bin_name>, a cargo line starting with <bin_name>, the binary's flags) or
\* the package (a listing line containing <package>@)
version_subject(bin_name, package_manager) ==
    IF package_manager.name \in {"bun", "npm", "pnpm"}
    THEN package_manager.package_name
    ELSE bin_name

\* lines the update subprocess writes; the second is not valid UTF-8
ChildLines == {<<"line">>, <<"\\xFF">>}
IsUtf8(line) == ~Contains(line, <<"\\xFF">>)

Step(op, arg, ok) == [op |-> op, arg |-> arg, ok |-> ok]

\* the message printed bare
BareLine(msg) == msg

\* eprintln!("Error: {}", e)
ErrorLine(msg) == <<"Error: ">> \o msg

\* the flag test taken the wrong way round
info_inverted(a) == ~a.info

\* if args.info
info_mode(a) == a.info

\* a status test that always passes
always_success(status) == TRUE

\* ExitStatus::success
status_success(status) == status = 0

Init ==
    /\ args \in [bin_name : BinNames, info : BOOLEAN]
    /\ env \in RunEnvs(args.bin_name)
    /\ pc = "main"
    /\ pm = ErrPm(<<>>)
    /\ old_version = <<>>
    /\ new_version = <<>>
    /\ out = <<>>
    /\ errs = <<>>
    /\ exit_code = -1
    /\ child = NoChild
    /\ log = <<>>
    /\ fn_in = <<>>
    /\ fn_out = <<>>

\* main with --info: display_info, then return or exit(1)
DisplayInfo ==
    /\ pc = "main" /\ info_mode(args)
    /\ LET package_manager == detect_package_manager(args.bin_name, env)
       IN  /\ pm' = package_manager
           /\ log' = Append(log, Step("detect", args.bin_name, package_manager.ok))
           /\ IF package_manager.ok
              THEN /\ out' = out \o << <<"Package name: ">> \o package_manager.package_name,
                                       <<"Package manager: ", package_manager.name>> >>
                   /\ errs' = errs
                   /\ exit_code' = 0
              ELSE /\ errs' = Append(errs, ErrorLine(package_manager.err))
                   /\ out' = out
                   /\ exit_code' = 1
    /\ pc' = "exited"
    /\ UNCHANGED <<env, args, old_version, new_version, child, fn_in, fn_out>>

\* update_binary: detect_package_manager(bin_name)?
Detect ==
    /\ pc = "main" /\ ~info_mode(args)
    /\ LET package_manager == detect_package_manager(args.bin_name, env)
       IN  /\ pm' = package_manager
           /\ log' = Append(log, Step("detect", args.bin_name, package_manager.ok))
           /\ IF package_manager.ok
              THEN /\ pc' = "old_version"
                   /\ UNCHANGED <<errs, exit_code>>
              ELSE /\ errs' = Append(errs, ErrorLine(package_manager.err))
                   /\ exit_code' = 1
                   /\ pc' = "exited"
    /\ UNCHANGED <<env, args, old_version, new_version, out, child, fn_in, fn_out>>

\* update_binary: old_version = get_version(..).unwrap_or("unknown"), printed
GetOldVersion ==
    /\ pc = "old_version"
    /\ \E output \in ListAnswers(pm), flags \in FlagAnswers :
          LET r == get_version(args.bin_name, pm, output, flags)
          IN  /\ old_version' = unwrap_or_unknown(r)
              /\ out' = Append(out, <<"Current version: ">> \o unwrap_or_unknown(r))
              /\ log' = Append(log, Step("get_version",
                                         version_subject(args.bin_name, pm), r.ok))
    /\ pc' = "spawn"
    /\ UNCHANGED <<env, args, pm, new_version, errs, exit_code, child, fn_in, fn_out>>

\* update_binary: get_update_command(..)?, the "Updating" line, spawn()?
SpawnUpdate ==
    /\ pc = "spawn"
    /\ LET cmd == get_update_command(pm.name, pm.package_name)
       IN  IF ~cmd.ok
           THEN /\ errs' = Append(errs, ErrorLine(cmd.err))
                /\ exit_code' = 1
                /\ pc' = "exited"
                /\ UNCHANGED <<out, child, log>>
           ELSE /\ out' = Append(out, <<"Updating ">> \o pm.package_name
                                         \o <<" with ", pm.name>>)
                /\ \E launched \in BOOLEAN :
                      IF launched
                      THEN /\ child' = [ state |-> "running", status |-> 0,
                                         stdout |-> <<>>, stderr |-> <<>>,
                                         stdout_open |-> TRUE, stderr_open |-> TRUE,
                                         written |-> 0, writing |-> "" ]
                           /\ log' = Append(log, Step("spawn", cmd.args, TRUE))
                           /\ pc' = "read_stdout"
                           /\ UNCHANGED <<errs, exit_code>>
                      ELSE /\ errs' = Append(errs, ErrorLine(<<"Failed to run ">> \o cmd.command))
                           /\ log' = Append(log, Step("spawn", cmd.args, FALSE))
                           /\ exit_code' = 1
                           /\ pc' = "exited"
                           /\ child' = child
    /\ UNCHANGED <<env, args, pm, old_version, new_version, fn_in, fn_out>>

\* update_binary: one turn of `for line in reader.lines()` on the child's stdout
ReadStdoutLine ==
    /\ pc = "read_stdout"
    /\ child.stdout # <<>>
    /\ LET line == Head(child.stdout)
       IN  out' = IF IsUtf8(line) THEN Append(out, <<"---> ">> \o line) ELSE out
    /\ child' = [child EXCEPT !.stdout = Tail(@)]
    /\ UNCHANGED <<env, args, pc, pm, old_version, new_version, errs, exit_code,
                   log, fn_in, fn_out>>

\* update_binary: the stdout loop ends at end-of-file
StdoutEof ==
    /\ pc = "read_stdout"
    /\ child.stdout = <<>> /\ ~child.stdout_open
    /\ pc' = "read_stderr"
    /\ UNCHANGED <<env, args, pm, old_version, new_version, out, errs, exit_code,
                   child, log, fn_in, fn_out>>

\* update_binary: one turn of `for line in reader.lines()` on the child's stderr
ReadStderrLine ==
    /\ pc = "read_stderr"
    /\ child.stderr # <<>>
    /\ LET line == Head(child.stderr)
       IN  errs' = IF IsUtf8(line) THEN Append(errs, <<"---> ">> \o line) ELSE errs
    /\ child' = [child EXCEPT !.stderr = Tail(@)]
    /\ UNCHANGED <<env, args, pc, pm, old_version, new_version, out, exit_code,
                   log, fn_in, fn_out>>

\* update_binary: the stderr loop ends at end-of-file
StderrEof ==
    /\ pc = "read_stderr"
    /\ child.stderr = <<>> /\ ~child.stderr_open
    /\ pc' = "wait"
    /\ UNCHANGED <<env, args, pm, old_version, new_version, out, errs, exit_code,
                   child, log, fn_in, fn_out>>

\* update_binary: child.wait()?, then the status test
Wait ==
    /\ pc = "wait"
    /\ child.state = "exited"
    /\ \E waited \in BOOLEAN :
          /\ log' = Append(log, Step("wait", <<>>, waited))
          /\ IF ~waited
             THEN /\ errs' = Append(errs, ErrorLine(<<"Failed to wait for ">>
                                      \o get_update_command(pm.name, pm.package_name).command))
                  /\ exit_code' = 1
                  /\ pc' = "exited"
             ELSE IF ~status_success(child.status)
             THEN /\ errs' = Append(errs, ErrorLine(<<"Failed to update ">>
                                      \o pm.package_name \o <<" with ", pm.name>>))
                  /\ exit_code' = 1
                  /\ pc' = "exited"
             ELSE /\ pc' = "new_version"
                  /\ UNCHANGED <<errs, exit_code>>
    /\ UNCHANGED <<env, args, pm, old_version, new_version, out, child, fn_in, fn_out>>

\* update_binary: new_version = get_version(..).unwrap_or("unknown"), the
\* comparison and the closing lines; main returns
GetNewVersion ==
    /\ pc = "new_version"
    /\ \E output \in ListAnswers(pm), flags \in FlagAnswers :
          LET r == get_version(args.bin_name, pm, output, flags)
              v == unwrap_or_unknown(r)
          IN  /\ new_version' = v
              /\ log' = Append(log, Step("get_version",
                                         version_subject(args.bin_name, pm), r.ok))
              /\ out' = IF old_version # v
                        THEN out \o << <<"Updated to version: ">> \o v,
                                       <<"Successfully updated ">> \o pm.package_name
                                           \o <<" from ">> \o old_version
                                           \o <<" to ">> \o v >>
                        ELSE Append(out, pm.package_name \o <<" is already up to date (">>
                                           \o old_version \o <<")">>)
    /\ exit_code' = 0
    /\ pc' = "exited"
    /\ UNCHANGED <<env, args, pm, old_version, errs, child, fn_in, fn_out>>

(* The update subprocess *)

\* the subprocess calls write() on one of its open streams; the call returns
\* once the pipe has taken the line
ChildCallWrite ==
    /\ child.state = "running" /\ child.writing = ""
    /\ child.written < MaxChildLines
    /\ \E stream \in {"stdout", "stderr"} :
          /\ IF stream = "stdout" THEN child.stdout_open ELSE child.stderr_open
          /\ child' = [child EXCEPT !.writing = stream]
    /\ UNCHANGED <<env, args, pc, pm, old_version, new_version, out, errs, exit_code,
                   log, fn_in, fn_out>>

ChildWriteStdout ==
    /\ child.state = "running" /\ child.writing = "stdout"
    /\ Len(child.stdout) < PipeCap
    /\ \E line \in ChildLines :
          child' = [child EXCEPT !.stdout = Append(@, line), !.written = @ + 1,
                                 !.writing = ""]
    /\ UNCHANGED <<env, args, pc, pm, old_version, new_version, out, errs, exit_code,
                   log, fn_in, fn_out>>

ChildWriteStderr ==
    /\ child.state = "running" /\ child.writing = "stderr"
    /\ Len(child.stderr) < PipeCap
    /\ \E line \in ChildLines :
          child' = [child EXCEPT !.stderr = Append(@, line), !.written = @ + 1,
                                 !.writing = ""]
    /\ UNCHANGED <<env, args, pc, pm, old_version, new_version, out, errs, exit_code,
                   log, fn_in, fn_out>>

ChildCloseStdout ==
    /\ child.state = "running" /\ child.writing = "" /\ child.stdout_open
    /\ child' = [child EXCEPT !.stdout_open = FALSE]
    /\ UNCHANGED <<env, args, pc, pm, old_version, new_version, out, errs, exit_code,
                   log, fn_in, fn_out>>

ChildCloseStderr ==
    /\ child.state = "running" /\ child.writing = "" /\ child.stderr_open
    /\ child' = [child EXCEPT !.stderr_open = FALSE]
    /\ UNCHANGED <<env, args, pc, pm, old_version, new_version, out, errs, exit_code,
                   log, fn_in, fn_out>>

ChildExit ==
    /\ child.state = "running" /\ child.writing = ""
    /\ \E status \in {0, 1} :
          child' = [child EXCEPT !.state = "exited", !.status = status,
                                 !.stdout_open = FALSE, !.stderr_open = FALSE]
    /\ UNCHANGED <<env, args, pc, pm, old_version, new_version, out, errs, exit_code,
                   log, fn_in, fn_out>>

Next ==
    \/ DisplayInfo
    \/ Detect
    \/ GetOldVersion
    \/ SpawnUpdate
    \/ ReadStdoutLine
    \/ StdoutEof
    \/ ReadStderrLine
    \/ StderrEof
    \/ Wait
    \/ GetNewVersion
    \/ ChildCallWrite
    \/ ChildWriteStdout
    \/ ChildWriteStderr
    \/ ChildCloseStdout
    \/ ChildCloseStderr
    \/ ChildExit

Spec == Init /\ [][Next]_vars

----------------------------------------------------------------------------
(* Claims about a run *)

RunEnded == pc = "exited"

ErrorLines == {i \in 1..Len(errs) : StartsWith(errs[i], <<"Error: ">>)}
StepsOf(op) == {i \in 1..Len(log) : log[i].op = op}
OpsOf(l) == [i \in 1..Len(l) |-> l[i].op]

NotFound == ~find_binary_path(args.bin_name, env.which_bin).ok
NoManagerMatches == ~NotFound /\ \E i \in StepsOf("detect") : ~log[i].ok
LaunchFailed == \E i \in StepsOf("spawn") : ~log[i].ok
ExitedNonZero == child.state = "exited" /\ child.status # 0
WaitFailed == \E i \in StepsOf("wait") : ~log[i].ok

\* the exit code and the Error line of a finished run whose failures are `failed`
ExitCodeFor(failed) ==
    /\ exit_code \in {0, 1}
    /\ failed => exit_code = 1 /\ Cardinality(ErrorLines) = 1
    /\ ~failed => exit_code = 0
    /\ NotFound => \E i \in ErrorLines : Contains(errs[i], <<"' not found">>)
    /\ Cardinality(StepsOf("spawn")) <= 1

C5_VersionFailureNeverBlocks ==
    LET q == StepsOf("get_version")
    IN  \A i \in q :
            ~log[i].ok =>
                IF \A j \in q : i <= j
                THEN /\ old_version = Unknown
                     /\ \E k \in 1..Len(out) : out[k] = <<"Current version: ", "unknown">>
                     /\ i < Len(log) => log[i + 1].op = "spawn"
                     /\ i = Len(log) => pc = "spawn"
                ELSE /\ new_version = Unknown
                     /\ RunEnded /\ exit_code = 0
                     /\ ErrorLines = {}

\* both lookups failed around a successful update
C5_Witness ==
    /\ RunEnded /\ exit_code = 0
    /\ Cardinality(StepsOf("get_version")) = 2
    /\ \A i \in StepsOf("get_version") : ~log[i].ok
    /\ \E i \in StepsOf("spawn") : log[i].ok
    /\ old_version = Unknown /\ new_version = Unknown

RunOrder == <<"detect", "get_version", "spawn", "wait", "get_version">>

ClosingLines ==
    {i \in 1..Len(out) :
        \/ StartsWith(out[i], <<"Updated to version: ">>)
        \/ StartsWith(out[i], <<"Successfully updated ">>)
        \/ Contains(out[i], <<" is already up to date (">>)}

\* C6: without --info the steps are taken in the order classify, old version,
\* spawn, wait, new version; the new version is read only after the update
\* subprocess exited with status 0; after a non-zero exit no new version is
\* read and no closing line is printed; when the versions differ the run
\* prints the old version and a success line naming both, and exits 0.
C6_StepOrder ==
    ~args.info =>
        /\ Len(log) <= Len(RunOrder) /\ OpsOf(log) = SubSeq(RunOrder, 1, Len(log))
        /\ (pc = "new_version" \/ Cardinality(StepsOf("get_version")) = 2) =>
              /\ child.state = "exited" /\ child.status = 0
              /\ child.stdout = <<>> /\ child.stderr = <<>>
        /\ child.state = "running" => Cardinality(StepsOf("get_version")) = 1
        /\ ExitedNonZero =>
              /\ Cardinality(StepsOf("get_version")) = 1
              /\ new_version = <<>>
              /\ ClosingLines = {}
        /\ (RunEnded /\ new_version # <<>> /\ old_version # new_version) =>
              /\ exit_code = 0
              /\ out[1] = <<"Current version: ">> \o old_version
              /\ out[Len(out)] = <<"Successfully updated ">> \o pm.package_name
                                    \o <<" from ">> \o old_version
                                    \o <<" to ">> \o new_version

\* the end-to-end scenario: Homebrew, 2.1.0 before, 2.2.0 after, exit code 0
C6_Witness ==
    /\ RunEnded /\ exit_code = 0
    /\ pm.name = "homebrew"
    /\ old_version = <<"2.1.0">> /\ new_version = <<"2.2.0">>
    /\ Len(out) > 4

\* C7: with --info the run classifies and prints only: no update subprocess,
\* no version query; it prints the package name and the manager and ends with
\* exit code 0, or prints one "Error:" line and ends with exit code 1.
C7_InfoOnlyClassifies ==
    args.info =>
        /\ child = NoChild
        /\ StepsOf("spawn") = {} /\ StepsOf("get_version") = {} /\ StepsOf("wait") = {}
        /\ old_version = <<>> /\ new_version = <<>>
        /\ RunEnded =>
              /\ OpsOf(log) = <<"detect">>
              /\ IF detect_package_manager(args.bin_name, env).ok
                 THEN /\ exit_code = 0 /\ errs = <<>>
                      /\ out = << <<"Package name: ">> \o pm.package_name,
                                  <<"Package manager: ", pm.name>> >>
                 ELSE /\ exit_code = 1 /\ out = <<>>
                      /\ Len(errs) = 1 /\ errs[1][1] = "Error: "

\* --info on a binary that a package of another name provides
C7_Witness ==
    /\ args.info /\ RunEnded /\ exit_code = 0
    /\ pm.name = "npm" /\ pm.package_name = <<"foo-cli">>

PrintedChildLines ==
    Cardinality({i \in 1..Len(out) : StartsWith(out[i], <<"---> ">>)})
    + Cardinality({i \in 1..Len(errs) : StartsWith(errs[i], <<"---> ">>)})

\* C8: a line the child wrote to standard error can be read as soon as it is
\* in the pipe, without waiting for standard output to be closed; both
\* streams are at end-of-file before wait is called; every line the child
\* wrote has then been printed.
C8_BothStreamsDrainedAsWritten ==
    /\ (child.state = "running" /\ child.stderr # <<>>) => ENABLED ReadStderrLine
    /\ StepsOf("wait") # {} =>
          /\ child.stdout = <<>> /\ child.stderr = <<>>
          /\ ~child.stdout_open /\ ~child.stderr_open
          /\ PrintedChildLines = child.written

----------------------------------------------------------------------------
(* get_version called on its own, for every manager, every answer of the
   listing command and every answer of the binary's version flags *)

\* a listing that ran and names only another package
OtherPackageText == <<"+--", " ", "other", "@", "9.9.9", "\n", "other", " ", "v", "9.9.9", ":", "\n">>

VersionInputs ==
    UNION { [ package_manager : {package_manager},
              output : ListAnswers(package_manager) \cup {Exited(TRUE, OtherPackageText)},
              flags : FlagAnswers ] :
            package_manager \in {OkPm(m, <<"foo">>) : m \in KnownManagers} }

InitVersion ==
    /\ Idle
    /\ env = NoEnv
    /\ pc = "call"
    /\ fn_in \in VersionInputs
    /\ fn_out = Err(<<>>)

CallGetVersion ==
    /\ pc = "call"
    /\ fn_out' = get_version(<<"foo">>, fn_in.package_manager, fn_in.output, fn_in.flags)
    /\ pc' = "returned"
    /\ UNCHANGED <<env, args, pm, old_version, new_version, out, errs, exit_code,
                   child, log, fn_in>>

SpecVersion == InitVersion /\ [][CallGetVersion]_vars

\* the flags --version, -v, -V, version whose invocation exits successfully
WorkingFlags(flags) == {i \in 1..Len(flags) : flags[i].launched /\ flags[i].success}

\* the generic fallback of section 4.6: the trimmed first output line of the
\* first working flag
FallbackVersion(flags) ==
    LET i  == CHOOSE k \in WorkingFlags(flags) : \A j \in WorkingFlags(flags) : k <= j
        ls == Lines(flags[i].stdout)
    IN  Trim(IF ls = <<>> THEN Unknown ELSE ls[1])

\* the listing command could not be launched or exited non-zero
ListingFailed(output) == ~output.launched \/ ~output.success

\* no line of the listing matches the package (node managers) or the binary (cargo)
NoMatchingLine(package_manager, bin_name, output) ==
    LET ls == Lines(output.stdout)
    IN  IF package_manager.name = "cargo"
        THEN \A i \in 1..Len(ls) : ~StartsWith(ls[i], bin_name \o <<" ">>)
        ELSE \A i \in 1..Len(ls) : ~Contains(ls[i], package_manager.package_name \o <<"@">>)

\* C11: for npm, pnpm, bun and cargo, when the listing command cannot be
\* launched, exits non-zero or prints no matching line, get_version returns
\* what the generic fallback returns: the trimmed first line of the first of
\* --version, -v, -V, version that exits successfully, and an error only
\* when none of the four does.
C11_FallbackOnEveryListingFailure ==
    (/\ pc = "returned"
     /\ fn_in.package_manager.name \in {"npm", "pnpm", "bun", "cargo"}
     /\ \/ ListingFailed(fn_in.output)
        \/ NoMatchingLine(fn_in.package_manager, <<"foo">>, fn_in.output)) =>
        IF WorkingFlags(fn_in.flags) = {}
        THEN ~fn_out.ok
        ELSE fn_out.ok /\ fn_out.v = FallbackVersion(fn_in.flags)

\* the same for the two failures the code does fall back on: a non-zero exit
\* and a listing without a matching line
C11_FallbackWhenListingRan ==
    (/\ pc = "returned"
     /\ fn_in.package_manager.name \in {"npm", "pnpm", "bun", "cargo"}
     /\ fn_in.output.launched
     /\ \/ ~fn_in.output.success
        \/ NoMatchingLine(fn_in.package_manager, <<"foo">>, fn_in.output)) =>
        IF WorkingFlags(fn_in.flags) = {}
        THEN ~fn_out.ok
        ELSE fn_out.ok /\ fn_out.v = FallbackVersion(fn_in.flags)

----------------------------------------------------------------------------
(* The pnpm and yarn tests, as section 4.2 reads them *)

\* the command ran and printed a directory
ReportedADirectory(cmd_out) == cmd_out.some /\ Trim(cmd_out.v) # <<>>

\* the path lies under the printed directory: the directory occurs in the path
LiesUnderReported(e, bin_name, cmd_out) ==
    /\ ReportedADirectory(cmd_out)
    /\ Contains(NormalizedBinPath(e, bin_name), ReplaceBackslash(Trim(cmd_out.v)))

\* C12: the classifier yields pnpm (yarn) only when `pnpm bin -g` (`yarn
\* global bin`) printed a directory and the binary's path lies under it; a
\* found binary whose path matches none of the six tests, the pnpm or yarn
\* command having printed nothing included, gets the error "Could not detect
\* package manager" and no manager.
C12_PnpmYarnOnlyUnderReportedDir ==
    (pc = "returned" /\ ResolvedPath.ok) =>
        /\ (fn_out.ok /\ fn_out.name = "pnpm") =>
               LiesUnderReported(env, fn_in, env.pnpm_bin)
        /\ (fn_out.ok /\ fn_out.name = "yarn") =>
               LiesUnderReported(env, fn_in, env.yarn_bin)
        /\ (/\ ~TestMatches("homebrew", env, fn_in)
            /\ ~TestMatches("bun", env, fn_in)
            /\ ~TestMatches("cargo", env, fn_in)
            /\ ~LiesUnderReported(env, fn_in, env.pnpm_bin)
            /\ ~TestMatches("npm", env, fn_in)
            /\ ~LiesUnderReported(env, fn_in, env.yarn_bin)) =>
               /\ ~fn_out.ok
               /\ StartsWith(fn_out.err, <<"Could not detect package manager for '">>)

\* the same once a command that printed nothing counts as a matching test
C12_EmptyOutputMatchesEverything ==
    (pc = "returned" /\ ResolvedPath.ok) =>
        /\ (fn_out.ok /\ fn_out.name = "pnpm") =>
               env.pnpm_bin.some /\ (ReportedADirectory(env.pnpm_bin) =>
                                        LiesUnderReported(env, fn_in, env.pnpm_bin))
        /\ (fn_out.ok /\ fn_out.name = "yarn") =>
               env.yarn_bin.some /\ (ReportedADirectory(env.yarn_bin) =>
                                        LiesUnderReported(env, fn_in, env.yarn_bin))

----------------------------------------------------------------------------
(* The four node-manager resolvers called on their own, for every listing of
   up to MaxPkgs packages and every manifest *)

\* packages in a global listing
MaxPkgs == 2

\* "bin" declarations of a manifest: none (manifest missing, malformed or
\* without "bin"), a string, a mapping with its keys
BinDeclarations ==
    { NoBin, BinString(<<"foo">>), BinString(<<"./cli.js">>), BinObject(<<>>),
      BinObject(<<<<"foo">>>>), BinObject(<<<<"bar">>>>), BinObject(<<<<"bar">>, <<"foo">>>>) }

ListedPackages ==
    { Pkg(name, bin, dir) :
        name \in {<<"foo-cli">>, <<"zed">>},
        bin \in BinDeclarations,
        dir \in {NodeModulesDir, <<"/", "elsewhere">>} }

\* no listing (the command could not be launched) or the packages it lists
ResolveListings ==
    {None} \cup {Some(l) : l \in UNION {[1..n -> ListedPackages] : n \in 0..MaxPkgs}}

Resolvers == {"npm", "pnpm", "yarn", "bun"}

resolve(resolver, bin_name, listing) ==
    CASE resolver = "npm"  -> map_bin_name_to_npm_package_name(bin_name, NodeModulesDir, listing)
      [] resolver = "pnpm" -> map_bin_name_to_pnpm_package_name(bin_name, listing)
      [] resolver = "yarn" -> map_bin_name_to_yarn_package_name(bin_name, listing)
      [] resolver = "bun"  -> map_bin_name_to_bun_package_name(bin_name, listing)

InitResolve ==
    /\ Idle
    /\ env = NoEnv
    /\ pc = "call"
    /\ fn_in \in [resolver : Resolvers, listing : ResolveListings]
    /\ fn_out = <<>>

CallResolve ==
    /\ pc = "call"
    /\ fn_out' = resolve(fn_in.resolver, <<"foo">>, fn_in.listing)
    /\ pc' = "returned"
    /\ UNCHANGED <<env, args, pm, old_version, new_version, out, errs, exit_code,
                   child, log, fn_in>>

SpecResolve == InitResolve /\ [][CallResolve]_vars

\* the manifest the resolver reads for a listed package: npm looks in the
\* global node_modules directory, the others where the listing says
ManifestRead(resolver, p) ==
    IF resolver = "npm" /\ p.dir # NodeModulesDir THEN NoBin ELSE p.bin

\* the "bin" declaration names the binary: a string equal to it, or a
\* mapping with it as a key
Declares(bin, bin_name) ==
    \/ bin.kind = "string" /\ bin.names[1] = bin_name
    \/ bin.kind = "object" /\ bin_name \in {bin.names[i] : i \in 1..Len(bin.names)}

\* positions of the listed packages whose manifest declares the binary
MatchingPackages(resolver, listing, bin_name) ==
    IF ~listing.some THEN {}
    ELSE {i \in 1..Len(listing.v) :
            Declares(ManifestRead(resolver, listing.v[i]), bin_name)}

----------------------------------------------------------------------------
(* One Detection Result for the update command and the version queries *)

\* the managers whose version query names a package to the manager
QueriedManagers == {"homebrew", "bun", "npm", "pnpm", "cargo"}

\* C14: the package name given to the update command and the name the
\* version queries before and after the update ask the manager about are
\* both the resolved package name of the Detection Result, also when it
\* differs from the binary name; the Homebrew version query is made for the
\* resolved package.
C14_SamePackageNameEverywhere ==
    \A i \in 1..Len(log) :
        /\ log[i].op = "spawn" =>
               log[i].arg[Len(log[i].arg)] = pm.package_name
        /\ (log[i].op = "get_version" /\ pm.name \in QueriedManagers) =>
               log[i].arg = pm.package_name

\* the same without Homebrew: the update command of every manager and the
\* version queries of bun, npm, pnpm and cargo use the resolved package name
C14_SamePackageNameButHomebrew ==
    \A i \in 1..Len(log) :
        /\ log[i].op = "spawn" =>
               log[i].arg[Len(log[i].arg)] = pm.package_name
        /\ (log[i].op = "get_version" /\ pm.name \in QueriedManagers \ {"homebrew"}) =>
               log[i].arg = pm.package_name

----------------------------------------------------------------------------
(* Progress of the update step against a subprocess with bounded pipes *)

\* the parent waits in a read of the stream: nothing to read, not at end-of-file
ParentBlockedReading(stream) ==
    IF stream = "stdout"
    THEN pc = "read_stdout" /\ child.stdout = <<>> /\ child.stdout_open
    ELSE pc = "read_stderr" /\ child.stderr = <<>> /\ child.stderr_open

\* the subprocess waits in a write to the stream: the pipe is full
ChildBlockedWriting(stream) ==
    /\ child.state = "running" /\ child.writing = stream
    /\ IF stream = "stdout" THEN Len(child.stdout) >= PipeCap
                            ELSE Len(child.stderr) >= PipeCap

\* update_binary is between the spawn and the return of child.wait()
InUpdateStep == pc \in {"read_stdout", "read_stderr", "wait"}

\* C15: the update step cannot deadlock: with bounded pipes and a subprocess
\* that writes finitely many lines to its two streams in any order and
\* exits, the parent is never blocked reading one stream while the
\* subprocess is blocked writing to the other, full, stream, and as long as
\* update_binary is in the update step, it or the subprocess can take a step.
C15_UpdateStepNeverDeadlocks ==
    /\ ~(ParentBlockedReading("stdout") /\ ChildBlockedWriting("stderr"))
    /\ ~(ParentBlockedReading("stderr") /\ ChildBlockedWriting("stdout"))
    /\ InUpdateStep => ENABLED Next

\* the half that holds: once standard output is at end-of-file the parent
\* reads standard error and nothing can block the two of them
C15_NoDeadlockAfterStdoutEof ==
    /\ ~(ParentBlockedReading("stderr") /\ ChildBlockedWriting("stdout"))
    /\ pc \in {"read_stderr", "wait"} => ENABLED Next

====
